---- MODULE Spec2Model ----
(***************************************************************************)
(* Model of main.py: a discrete-time simulation of heuristic task          *)
(* placement on capacity-constrained nodes.                                *)
(*                                                                         *)
(* Python lists are sequences.  A Task object is the record tasks[id + 1], *)
(* a Node object is the record nodes[id + 1]; a list that holds Task       *)
(* objects (pending_tasks, tasks_sorted, node.schedule) holds their        *)
(* task_id, a list of Node objects (candidate_nodes) holds their node_id.  *)
(* Python's None is the value None.                                        *)
(*                                                                         *)
(* Floats are exact rationals [num, den]: every float of the run is        *)
(* alpha, beta or a score alpha*a - beta*l with small integers a, l, and   *)
(* the comparison of two scores is the only use made of them.              *)
(***************************************************************************)
EXTENDS Integers, Sequences, FiniteSets

\* ------------------------------------------------------------- bounds
\* num_nodes ranges over 1..MaxNodes, num_tasks over 0..MaxTasks.
MaxNodes == 2
MaxTasks == 3
\* simulation_time of the run.
SimulationTime == 8

\* Values random.randint may return, subsets of the ranges of the source.
Capacities == {50, 60}
Requireds == {25, 30}
ProcessingTimes == {1, 5}
\* random.randint(5, simulation_time): the two smallest values.
DeadlineLow == 5
Deadlines == {d \in {DeadlineLow, DeadlineLow + 1} : d <= SimulationTime}

\* Values outside the generator's ranges, for nodes and tasks built directly
\* with Node(...) and Task(...): a node smaller than every task.
SmallCapacities == {25, 50}

None == -1

VARIABLES
    nodes,            \* list of Node
    tasks,            \* list of Task (tasks and tasks_queue hold the same objects)
    simulation_time,
    current_time,
    meta_params,      \* [alpha, beta]
    pending_tasks,    \* the list built at line 83 (task ids)
    tasks_sorted,     \* schedule_tasks' sorted list (task ids)
    loop_i,           \* position of schedule_tasks' for loop in tasks_sorted
    stdout,           \* the events printed, as records: one per assignment,
                      \* one per policy update, one per node at the end
                      \* (headers and separators are left out)
    pc                \* where simulate_scheduling stands

vars == <<nodes, tasks, simulation_time, current_time, meta_params,
          pending_tasks, tasks_sorted, loop_i, stdout, pc>>

\* ------------------------------------------------------------- rationals
Rat(n, d) == [num |-> n, den |-> d]
RatAdd(a, b) == Rat(a.num * b.den + b.num * a.den, a.den * b.den)
RatSub(a, b) == Rat(a.num * b.den - b.num * a.den, a.den * b.den)
RatMul(a, b) == Rat(a.num * b.num, a.den * b.den)
RatDiv(a, b) == Rat(a.num * b.den, a.den * b.num)
RatLess(a, b) == a.num * b.den < b.num * a.den
RatEq(a, b) == a.num * b.den = b.num * a.den
RatLeq(a, b) == a.num * b.den <= b.num * a.den

\* ------------------------------------------------------------- objects
Task(task_id, required, deadline, processing_time) ==
    [task_id |-> task_id, required |-> required, deadline |-> deadline,
     processing_time |-> processing_time,
     assigned_node |-> None, start_time |-> None, end_time |-> None]

Node(node_id, capacity) ==
    [node_id |-> node_id, capacity |-> capacity, current_load |-> 0,
     schedule |-> <<>>]

available_capacity(node) == node.capacity - node.current_load

\* ------------------------------------------------------------- helpers
RECURSIVE SumSeq(_)
SumSeq(s) == IF s = <<>> THEN 0 ELSE Head(s) + SumSeq(Tail(s))

RECURSIVE Filter(_, _)
\* [x for x in s if x \in keep]
Filter(s, keep) ==
    IF s = <<>> THEN <<>>
    ELSE IF Head(s) \in keep THEN <<Head(s)>> \o Filter(Tail(s), keep)
         ELSE Filter(Tail(s), keep)

RECURSIVE RemoveFirst(_, _)
\* list.remove(x): removes the first occurrence of x
RemoveFirst(s, x) ==
    IF s = <<>> THEN <<>>
    ELSE IF Head(s) = x THEN Tail(s)
         ELSE <<Head(s)>> \o RemoveFirst(Tail(s), x)

Range(s) == {s[i] : i \in 1..Len(s)}

\* ------------------------------------------------------------- schedule_tasks
TaskOf(ts, tid) == ts[tid + 1]
NodeOf(ns, nid) == ns[nid + 1]

RECURSIVE InsertByDeadline(_, _, _)
\* tid placed after every element whose deadline is not later than its own
InsertByDeadline(ts, tid, sorted) ==
    IF sorted = <<>> THEN <<tid>>
    ELSE IF TaskOf(ts, tid).deadline < TaskOf(ts, Head(sorted)).deadline
         THEN <<tid>> \o sorted
         ELSE <<Head(sorted)>> \o InsertByDeadline(ts, tid, Tail(sorted))

RECURSIVE SortAcc(_, _, _)
SortAcc(ts, rest, sorted) ==
    IF rest = <<>> THEN sorted
    ELSE SortAcc(ts, Tail(rest), InsertByDeadline(ts, Head(rest), sorted))

\* mutant: sorted by deadline, tasks of equal deadline in reverse order
SortedByDeadline_TiesReversed(ts, tids) ==
    SortAcc(ts, [i \in 1..Len(tids) |-> tids[Len(tids) + 1 - i]], <<>>)

\* mutant: the tasks are processed in the order given, unsorted
SortedByDeadline_Unsorted(ts, tids) == tids

\* sorted(tasks, key=lambda t: t.deadline): ascending and stable
SortedByDeadline(ts, tids) == SortAcc(ts, tids, <<>>)

\* alpha * n.available_capacity() - beta * n.current_load
Score(node, mp) ==
    RatSub(RatMul(mp.alpha, Rat(available_capacity(node), 1)),
           RatMul(mp.beta, Rat(node.current_load, 1)))

\* mutant: available_capacity() > task.required, exact fits are refused
CandidateNodes_StrictRoom(ns, required) ==
    Filter([i \in 1..Len(ns) |-> ns[i].node_id],
           {ns[i].node_id : i \in {j \in 1..Len(ns) :
                                     available_capacity(ns[j]) > required}})

\* mutant: every node is a candidate, whatever room it has
CandidateNodes_NoFilter(ns, required) == [i \in 1..Len(ns) |-> ns[i].node_id]

\* [node for node in nodes if node.available_capacity() >= task.required]
CandidateNodes(ns, required) ==
    Filter([i \in 1..Len(ns) |-> ns[i].node_id],
           {ns[i].node_id : i \in {j \in 1..Len(ns) :
                                     available_capacity(ns[j]) >= required}})

RECURSIVE InsertByScore(_, _, _, _)
\* nid placed after every element whose score is not lower than its own
InsertByScore(ns, mp, nid, sorted) ==
    IF sorted = <<>> THEN <<nid>>
    ELSE IF RatLess(Score(NodeOf(ns, Head(sorted)), mp), Score(NodeOf(ns, nid), mp))
         THEN <<nid>> \o sorted
         ELSE <<Head(sorted)>> \o InsertByScore(ns, mp, nid, Tail(sorted))

RECURSIVE SortScoreAcc(_, _, _, _)
SortScoreAcc(ns, mp, rest, sorted) ==
    IF rest = <<>> THEN sorted
    ELSE SortScoreAcc(ns, mp, Tail(rest), InsertByScore(ns, mp, Head(rest), sorted))

\* candidate_nodes.sort(key=score, reverse=True): descending and stable
SortedByScore(ns, mp, nids) == SortScoreAcc(ns, mp, nids, <<>>)

\* mutant: candidate_nodes[-1], the last node of the sorted list
Chosen_Last(ns, mp, candidate_nodes) ==
    SortedByScore(ns, mp, candidate_nodes)[Len(candidate_nodes)]

\* candidate_nodes[0] after the sort
Chosen(ns, mp, candidate_nodes) == Head(SortedByScore(ns, mp, candidate_nodes))

\* lines 42-44
AssignTask(task, nid, ct) ==
    [task EXCEPT !.assigned_node = nid,
                 !.start_time = ct,
                 !.end_time = ct + task.processing_time]

\* lines 45-47
Reserve(node, task) ==
    [node EXCEPT !.schedule = Append(@, task.task_id),
                 !.current_load = @ + task.required]

\* One iteration of the for loop of schedule_tasks, on task tid.
ScheduleOne(ns, ts, tid, ct, mp) ==
    LET task == TaskOf(ts, tid)
        candidate_nodes == CandidateNodes(ns, task.required)
    IN  IF candidate_nodes = <<>>
        THEN [nodes |-> ns, tasks |-> ts]
        ELSE LET chosen == Chosen(ns, mp, candidate_nodes)
             IN  [nodes |-> [ns EXCEPT ![chosen + 1] = Reserve(@, task)],
                  tasks |-> [ts EXCEPT ![tid + 1] = AssignTask(@, chosen, ct)]]

RECURSIVE ScheduleLoop(_, _, _, _, _)
\* The for loop of schedule_tasks over the remaining sorted tasks.
ScheduleLoop(ns, ts, sorted, ct, mp) ==
    IF sorted = <<>> THEN [nodes |-> ns, tasks |-> ts]
    ELSE LET r == ScheduleOne(ns, ts, Head(sorted), ct, mp)
         IN  ScheduleLoop(r.nodes, r.tasks, Tail(sorted), ct, mp)

\* schedule_tasks(tasks, nodes, current_time, meta_params), as a whole
schedule_tasks(pending, ns, ts, ct, mp) ==
    ScheduleLoop(ns, ts, SortedByDeadline(ts, pending), ct, mp)

\* ------------------------------------------------------------- update_nodes
\* mutant: end_time < current_time, a release one step late
FinishedTasks_Strict(node, ts, ct) ==
    Filter(node.schedule,
           {tid \in Range(node.schedule) : TaskOf(ts, tid).end_time < ct})

\* lines 53-56
FinishedTasks(node, ts, ct) ==
    Filter(node.schedule,
           {tid \in Range(node.schedule) : TaskOf(ts, tid).end_time <= ct})

\* mutant: the load is given back, the task stays in the schedule
Release_KeepsInSchedule(node, task) ==
    [node EXCEPT !.current_load = @ - task.required]

\* lines 58-59
Release(node, task) ==
    [node EXCEPT !.schedule = RemoveFirst(@, task.task_id),
                 !.current_load = @ - task.required]

RECURSIVE ReleaseAll(_, _, _)
\* lines 57-59
ReleaseAll(node, ts, finished_tasks) ==
    IF finished_tasks = <<>> THEN node
    ELSE ReleaseAll(Release(node, TaskOf(ts, Head(finished_tasks))), ts,
                    Tail(finished_tasks))

update_nodes(ns, ts, ct) ==
    [i \in 1..Len(ns) |-> ReleaseAll(ns[i], ts, FinishedTasks(ns[i], ts, ct))]

\* ------------------------------------------------------------- simulate_scheduling
\* mutant: the filter forgets start_time is None
Pending_IgnoresStart(ts, ct) ==
    Filter([i \in 1..Len(ts) |-> ts[i].task_id],
           {ts[i].task_id : i \in {j \in 1..Len(ts) : ts[j].deadline >= ct}})

\* mutant: the filter forgets the deadline
Pending_IgnoresDeadline(ts, ct) ==
    Filter([i \in 1..Len(ts) |-> ts[i].task_id],
           {ts[i].task_id : i \in {j \in 1..Len(ts) : ts[j].start_time = None}})

\* mutant: deadline > current_time - 2, a task is offered one step too long
Pending_LateByOne(ts, ct) ==
    Filter([i \in 1..Len(ts) |-> ts[i].task_id],
           {ts[i].task_id : i \in {j \in 1..Len(ts) :
                /\ ts[j].start_time = None
                /\ ts[j].deadline >= ct - 1}})

\* mutant: deadline > current_time, a task is dropped at its deadline
Pending_StrictDeadline(ts, ct) ==
    Filter([i \in 1..Len(ts) |-> ts[i].task_id],
           {ts[i].task_id : i \in {j \in 1..Len(ts) :
                /\ ts[j].start_time = None
                /\ ts[j].deadline > ct}})

\* line 83
Pending(ts, ct) ==
    Filter([i \in 1..Len(ts) |-> ts[i].task_id],
           {ts[i].task_id : i \in {j \in 1..Len(ts) :
                /\ ts[j].start_time = None
                /\ ts[j].deadline >= ct}})

\* mutant: the sum of the loads, not their mean
AvgLoad_Sum(ns) == Rat(SumSeq([i \in 1..Len(ns) |-> ns[i].current_load]), 1)

\* np.mean([node.current_load for node in nodes])
AvgLoad(ns) == Rat(SumSeq([i \in 1..Len(ns) |-> ns[i].current_load]), Len(ns))

\* mutant: 0.5 + 0.1 * avg_load, the division by 50 forgotten
NewBeta_NoScale(ns) == RatAdd(Rat(1, 2), RatMul(Rat(1, 10), AvgLoad(ns)))

\* 0.5 + 0.1 * (avg_load / 50)
NewBeta(ns) ==
    RatAdd(Rat(1, 2), RatMul(Rat(1, 10), RatDiv(AvgLoad(ns), Rat(50, 1))))

\* mutant: the test of line 87 forgotten, a line for every task of the list
RECURSIVE AssignmentLines_All(_, _)
AssignmentLines_All(ts, scheduled) ==
    IF scheduled = <<>> THEN <<>>
    ELSE LET t == TaskOf(ts, Head(scheduled))
         IN  <<[kind |-> "assigned", task_id |-> t.task_id,
                assigned_node |-> t.assigned_node,
                start_time |-> t.start_time, end_time |-> t.end_time,
                deadline |-> t.deadline]>>
             \o AssignmentLines_All(ts, Tail(scheduled))

\* The assignment lines of lines 86-88, in the order of the list returned.
RECURSIVE AssignmentLines(_, _)
AssignmentLines(ts, scheduled) ==
    IF scheduled = <<>> THEN <<>>
    ELSE LET t == TaskOf(ts, Head(scheduled))
         IN  (IF t.assigned_node # None
              THEN <<[kind |-> "assigned", task_id |-> t.task_id,
                      assigned_node |-> t.assigned_node,
                      start_time |-> t.start_time, end_time |-> t.end_time,
                      deadline |-> t.deadline]>>
              ELSE <<>>)
             \o AssignmentLines(ts, Tail(scheduled))

\* lines 99-100
FinalLines(ns) ==
    [i \in 1..Len(ns) |->
        [kind |-> "node", node_id |-> ns[i].node_id,
         current_load |-> ns[i].current_load, schedule |-> ns[i].schedule]]

\* lines 64-77 with the values random.randint returned
InitWith(caps) ==
    /\ \E num_nodes \in 1..MaxNodes, num_tasks \in 0..MaxTasks :
        /\ \E c \in [1..num_nodes -> caps] :
              nodes = [i \in 1..num_nodes |-> Node(i - 1, c[i])]
        /\ \E r \in [1..num_tasks -> Requireds],
              d \in [1..num_tasks -> Deadlines],
              p \in [1..num_tasks -> ProcessingTimes] :
              tasks = [i \in 1..num_tasks |-> Task(i - 1, r[i], d[i], p[i])]
    /\ simulation_time = SimulationTime
    /\ current_time = 0
    /\ meta_params = [alpha |-> Rat(1, 1), beta |-> Rat(1, 2)]
    /\ pending_tasks = <<>>
    /\ tasks_sorted = <<>>
    /\ loop_i = 0
    /\ stdout = <<>>
    /\ pc = "while"

Init == InitWith(Capacities)

\* lines 78-81: the loop test passes, the step header, update_nodes
UpdateNodes ==
    /\ pc = "while"
    /\ current_time < simulation_time
    /\ nodes' = update_nodes(nodes, tasks, current_time)
    /\ pc' = "select"
    /\ UNCHANGED <<tasks, simulation_time, current_time, meta_params,
                   pending_tasks, tasks_sorted, loop_i, stdout>>

\* lines 83-85, 29-31: pending tasks exist, schedule_tasks is entered
SelectPending ==
    /\ pc = "select"
    /\ Pending(tasks, current_time) # <<>>
    /\ pending_tasks' = Pending(tasks, current_time)
    /\ tasks_sorted' = SortedByDeadline(tasks, pending_tasks')
    /\ loop_i' = 1
    /\ pc' = "loop"
    /\ UNCHANGED <<nodes, tasks, simulation_time, current_time, meta_params, stdout>>

\* lines 83-84, 89-90: nothing is pending
NoPending ==
    /\ pc = "select"
    /\ Pending(tasks, current_time) = <<>>
    /\ pending_tasks' = <<>>
    /\ pc' = "adapt"
    /\ UNCHANGED <<nodes, tasks, simulation_time, current_time, meta_params,
                   tasks_sorted, loop_i, stdout>>

\* lines 32-47: one iteration of the for loop
ScheduleTask ==
    /\ pc = "loop"
    /\ loop_i <= Len(tasks_sorted)
    /\ LET r == ScheduleOne(nodes, tasks, tasks_sorted[loop_i], current_time, meta_params)
       IN  /\ nodes' = r.nodes
           /\ tasks' = r.tasks
    /\ loop_i' = loop_i + 1
    /\ UNCHANGED <<simulation_time, current_time, meta_params, pending_tasks,
                   tasks_sorted, stdout, pc>>

\* lines 48, 86-88: schedule_tasks returns, the assignments are printed
Report ==
    /\ pc = "loop"
    /\ loop_i > Len(tasks_sorted)
    /\ stdout' = stdout \o AssignmentLines(tasks, pending_tasks)
    /\ pc' = "adapt"
    /\ UNCHANGED <<nodes, tasks, simulation_time, current_time, meta_params,
                   pending_tasks, tasks_sorted, loop_i>>

\* lines 92-95
AdaptPolicy ==
    /\ pc = "adapt"
    /\ meta_params' = [meta_params EXCEPT !.beta = NewBeta(nodes)]
    /\ stdout' = Append(stdout, [kind |-> "params", beta |-> meta_params'.beta])
    /\ current_time' = current_time + 1
    /\ pc' = "while"
    /\ UNCHANGED <<nodes, tasks, simulation_time, pending_tasks, tasks_sorted, loop_i>>

\* mutant: the nodes are emptied before the final report
Finish_EmptiesNodes ==
    /\ pc = "while"
    /\ ~(current_time < simulation_time)
    /\ nodes' = [i \in 1..Len(nodes) |-> Node(nodes[i].node_id, nodes[i].capacity)]
    /\ stdout' = stdout \o FinalLines(nodes')
    /\ pc' = "done"
    /\ UNCHANGED <<tasks, simulation_time, current_time, meta_params,
                   pending_tasks, tasks_sorted, loop_i>>

\* lines 78, 98-100: the loop test fails, the final report
Finish ==
    /\ pc = "while"
    /\ ~(current_time < simulation_time)
    /\ stdout' = stdout \o FinalLines(nodes)
    /\ pc' = "done"
    /\ UNCHANGED <<nodes, tasks, simulation_time, current_time, meta_params,
                   pending_tasks, tasks_sorted, loop_i>>

Next ==
    \/ UpdateNodes
    \/ SelectPending
    \/ NoPending
    \/ ScheduleTask
    \/ Report
    \/ AdaptPolicy
    \/ Finish

Spec == Init /\ [][Next]_vars

\* The same program on nodes and tasks built directly with Node(...) and
\* Task(...), where a node may be smaller than every task.
InitSmall == InitWith(SmallCapacities)

SpecSmall == InitSmall /\ [][Next]_vars

\* random.randint(a, b) raises ValueError when b < a
RandintRaises(a, b) == b < a

\* simulate_scheduling called with any simulation_time of 0..SimulationTime.
\* Line 69 raises for the first task when simulation_time < 5: the call ends
\* there, before current_time and meta_params exist and before any print.
InitHorizon ==
    \E st \in 0..SimulationTime, num_nodes \in 1..MaxNodes, num_tasks \in 0..MaxTasks :
        /\ simulation_time = st
        /\ \E c \in [1..num_nodes -> Capacities] :
              nodes = [i \in 1..num_nodes |-> Node(i - 1, c[i])]
        /\ pending_tasks = <<>>
        /\ tasks_sorted = <<>>
        /\ loop_i = 0
        /\ stdout = <<>>
        /\ IF num_tasks >= 1 /\ RandintRaises(DeadlineLow, st)
           THEN /\ tasks = <<>>
                /\ current_time = None
                /\ meta_params = None
                /\ pc = "error"
           ELSE /\ \E r \in [1..num_tasks -> Requireds],
                      d \in [1..num_tasks -> {x \in Deadlines : x <= st}],
                      p \in [1..num_tasks -> ProcessingTimes] :
                      tasks = [i \in 1..num_tasks |-> Task(i - 1, r[i], d[i], p[i])]
                /\ current_time = 0
                /\ meta_params = [alpha |-> Rat(1, 1), beta |-> Rat(1, 2)]
                /\ pc = "while"

SpecHorizon == InitHorizon /\ [][Next]_vars

\* ------------------------------------------------------------- properties
TaskIds == {tasks[i].task_id : i \in 1..Len(tasks)}
NodeIds == {nodes[i].node_id : i \in 1..Len(nodes)}
Assigned(t) == t.assigned_node # None
RequiredOf(s) == [i \in 1..Len(s) |-> TaskOf(tasks, s[i]).required]
\* how many times task tid stands in the schedule of node nid
Occurrences(nid, tid) ==
    Cardinality({i \in 1..Len(NodeOf(nodes, nid).schedule) :
                    NodeOf(nodes, nid).schedule[i] = tid})
InSchedule(nid, tid) == Occurrences(nid, tid) > 0
InSomeSchedule(tid) == \E nid \in NodeIds : InSchedule(nid, tid)
\* the task the for loop of schedule_tasks is about to process
AtTask == tasks_sorted[loop_i]
InLoop == pc = "loop" /\ loop_i <= Len(tasks_sorted)
\* the tasks the for loop has still to process, and what the call makes of them
Remaining == SubSeq(tasks_sorted, loop_i, Len(tasks_sorted))
CallResult == ScheduleLoop(nodes, tasks, Remaining, current_time, meta_params)
Fits(ns, required) == \E i \in 1..Len(ns) : available_capacity(ns[i]) >= required
\* both tasks can be placed on the nodes ns at once
BothFit(ns, ra, rb) ==
    \E i, j \in 1..Len(ns) :
        IF i = j THEN available_capacity(ns[i]) >= ra + rb
        ELSE available_capacity(ns[i]) >= ra /\ available_capacity(ns[j]) >= rb
\* each of the two fits alone, the two do not fit together
OnlyOneFits(ns, ra, rb) == Fits(ns, ra) /\ Fits(ns, rb) /\ ~BothFit(ns, ra, rb)

\* C1: in every state of the run (so after update_nodes, after schedule_tasks
\* and at termination) every node's current_load is the sum of required over
\* the tasks of its schedule, and 0 <= current_load <= capacity.
C1_LoadAccounting ==
    \A i \in 1..Len(nodes) :
        /\ nodes[i].current_load = SumSeq(RequiredOf(nodes[i].schedule))
        /\ 0 <= nodes[i].current_load
        /\ nodes[i].current_load <= nodes[i].capacity

\* C1 witness: after schedule_tasks a node holds two tasks at once.
C1_Witness ==
    /\ pc = "adapt"
    /\ \E i \in 1..Len(nodes) :
          Len(nodes[i].schedule) = 2 /\ nodes[i].current_load > 0

\* C2, state part: a task's three assignment fields are all unset or all set
\* with end_time = start_time + processing_time; a task stands at most once
\* in all schedules together, and only in the schedule of its assigned_node.
C2_FieldsTogether ==
    \A i \in 1..Len(tasks) :
        LET t == tasks[i] IN
        /\ \/ t.assigned_node = None /\ t.start_time = None /\ t.end_time = None
           \/ /\ t.assigned_node \in NodeIds
              /\ t.start_time # None
              /\ t.end_time = t.start_time + t.processing_time
        /\ SumSeq([n \in 1..Len(nodes) |-> Occurrences(nodes[n].node_id, t.task_id)]) <= 1
        /\ \A nid \in NodeIds : InSchedule(nid, t.task_id) => t.assigned_node = nid

\* C2, step part: once a task is assigned no step changes the task.
C2_NoReassignment ==
    /\ Len(tasks') = Len(tasks)
    /\ \A i \in 1..Len(tasks) : Assigned(tasks[i]) => tasks'[i] = tasks[i]

\* C2: assignment fields are set together, once, and a task is in at most
\* one schedule, at most once, that of its assigned_node.
C2_AssignedOnce == [] C2_FieldsTogether /\ [][C2_NoReassignment]_vars

\* C2 witness: a task assigned at an earlier step is still in its node's
\* schedule while schedule_tasks runs again with other tasks pending.
C2_Witness ==
    /\ InLoop
    /\ \E i \in 1..Len(tasks) :
          /\ Assigned(tasks[i])
          /\ tasks[i].start_time < current_time
          /\ InSchedule(tasks[i].assigned_node, tasks[i].task_id)

\* C3: an assigned task has start_time <= deadline and
\* start_time < simulation_time.
C3_StartByDeadline ==
    \A i \in 1..Len(tasks) :
        Assigned(tasks[i]) =>
            /\ tasks[i].start_time <= tasks[i].deadline
            /\ tasks[i].start_time < simulation_time

\* C3 witness: a task assigned at current_time == deadline, after waiting.
C3_Witness ==
    \E i \in 1..Len(tasks) :
        /\ Assigned(tasks[i])
        /\ tasks[i].start_time = tasks[i].deadline

\* C4 as stated: at the entry of a schedule_tasks call, for pending tasks A
\* and B with A.deadline < B.deadline of which only one fits the capacity at
\* the entry, the call assigns A and does not assign B.
C4_Original ==
    (pc = "loop" /\ loop_i = 1) =>
        \A a, b \in Range(pending_tasks) :
            (/\ TaskOf(tasks, a).deadline < TaskOf(tasks, b).deadline
             /\ OnlyOneFits(nodes, TaskOf(tasks, a).required, TaskOf(tasks, b).required))
            => /\ Assigned(TaskOf(CallResult.tasks, a))
               /\ ~Assigned(TaskOf(CallResult.tasks, b))

\* C4, amended: when the for loop reaches A, for a pending task B with
\* A.deadline < B.deadline of which only one fits the capacity left at that
\* moment, the call assigns A (at this iteration) and does not assign B.
C4_EarliestDeadlineFirst ==
    InLoop =>
        \A b \in Range(pending_tasks) :
            (/\ TaskOf(tasks, AtTask).deadline < TaskOf(tasks, b).deadline
             /\ OnlyOneFits(nodes, TaskOf(tasks, AtTask).required,
                            TaskOf(tasks, b).required))
            => /\ Assigned(TaskOf(CallResult.tasks, AtTask))
               /\ ~Assigned(TaskOf(CallResult.tasks, b))
               /\ ~Assigned(TaskOf(tasks, b))

\* C4 witness: the loop stands at A, a later-deadline B is pending, each fits
\* alone and the two do not fit together.
C4_Witness ==
    /\ InLoop
    /\ \E b \in Range(pending_tasks) :
          /\ TaskOf(tasks, AtTask).deadline < TaskOf(tasks, b).deadline
          /\ OnlyOneFits(nodes, TaskOf(tasks, AtTask).required,
                         TaskOf(tasks, b).required)

\* C5, one iteration: if the iteration assigns its task, the node it names
\* had room for the task before the step, no node with room had a higher
\* score, and no node with room and the same score stands earlier in nodes.
C5_Step ==
    (InLoop /\ Assigned(TaskOf(tasks', AtTask))) =>
        LET task == TaskOf(tasks, AtTask)
            c == TaskOf(tasks', AtTask).assigned_node
        IN  /\ c \in NodeIds
            /\ available_capacity(NodeOf(nodes, c)) >= task.required
            /\ \A i \in 1..Len(nodes) :
                  available_capacity(nodes[i]) >= task.required =>
                      /\ RatLeq(Score(nodes[i], meta_params),
                                Score(NodeOf(nodes, c), meta_params))
                      /\ RatEq(Score(nodes[i], meta_params),
                               Score(NodeOf(nodes, c), meta_params))
                            => c + 1 <= i

\* C5: every assignment goes to a node with room, of maximum score, the
\* first such node in the order of nodes.
C5_BestNodeFirst == [][C5_Step]_vars

\* C5 witness: the first task of a call has just been given to node 0 while
\* node 1, of the same score before the step (same capacity, both empty at
\* step 0), was a candidate too.
C5_Witness ==
    /\ pc = "loop" /\ loop_i = 2 /\ current_time = 0
    /\ Len(nodes) = 2
    /\ nodes[1].capacity = nodes[2].capacity
    /\ TaskOf(tasks, tasks_sorted[1]).assigned_node = 0
    /\ nodes[2].current_load = 0

\* C7, amended: an assigned task is in its node's schedule after the release
\* of step s iff s < end_time, and at the end of step s iff
\* start_time <= s < end_time; so it is released by the release step of
\* current_time = end_time when end_time < simulation_time, and a task with
\* end_time >= simulation_time is still in the schedule at termination.
C7_HeldWhileRunning ==
    \A i \in 1..Len(tasks) :
        LET t == tasks[i] IN
        Assigned(t) =>
            /\ pc = "select" =>
                  (InSchedule(t.assigned_node, t.task_id) <=> current_time < t.end_time)
            /\ pc = "adapt" =>
                  (InSchedule(t.assigned_node, t.task_id)
                      <=> (t.start_time <= current_time /\ current_time < t.end_time))
            /\ pc = "done" =>
                  (InSchedule(t.assigned_node, t.task_id)
                      <=> simulation_time <= t.end_time)

\* C7 as stated: held from start_time to end_time and then released, for
\* every assigned task: once the run has terminated every assigned task has
\* been held processing_time steps and released.
C7_Original ==
    \A i \in 1..Len(tasks) :
        LET t == tasks[i] IN
        Assigned(t) =>
            /\ pc = "select" =>
                  (InSchedule(t.assigned_node, t.task_id) <=> current_time < t.end_time)
            /\ pc = "adapt" =>
                  (InSchedule(t.assigned_node, t.task_id)
                      <=> (t.start_time <= current_time /\ current_time < t.end_time))
            /\ pc = "done" => ~InSchedule(t.assigned_node, t.task_id)

\* C7 witness: the release step of current_time = end_time has just released
\* a task held for processing_time = 5 steps.
C7_Witness ==
    /\ pc = "select"
    /\ \E i \in 1..Len(tasks) :
          /\ Assigned(tasks[i])
          /\ tasks[i].processing_time = 5
          /\ tasks[i].end_time = current_time
          /\ ~InSomeSchedule(tasks[i].task_id)

\* C8: right after update_nodes(nodes, t), a second update_nodes(nodes, t)
\* leaves every node as it is.
C8_ReleaseIdempotent ==
    pc = "select" => update_nodes(nodes, tasks, current_time) = nodes

\* C8 witness: the first call released a task and left another one running.
C8_Witness ==
    /\ pc = "select"
    /\ \E i, j \in 1..Len(tasks) :
          /\ Assigned(tasks[i]) /\ Assigned(tasks[j])
          /\ tasks[i].end_time = current_time
          /\ tasks[i].start_time < current_time
          /\ ~InSomeSchedule(tasks[i].task_id)
          /\ InSomeSchedule(tasks[j].task_id)

\* a task larger than every node
Oversize(t) == \A i \in 1..Len(nodes) : t.required > nodes[i].capacity

\* C9: a task whose required exceeds every node's capacity has its
\* assignment fields unset in every state, is in no schedule, and every
\* node's current_load is the sum over its schedule, so without that task.
C9_OversizeNeverAssigned ==
    \A i \in 1..Len(tasks) :
        Oversize(tasks[i]) =>
            /\ tasks[i].assigned_node = None
            /\ tasks[i].start_time = None
            /\ tasks[i].end_time = None
            /\ ~InSomeSchedule(tasks[i].task_id)
            /\ \A n \in 1..Len(nodes) :
                  nodes[n].current_load = SumSeq(RequiredOf(nodes[n].schedule))

\* C9 witness: the run has terminated, an oversize task is unassigned and a
\* task that fits was assigned.
C9_Witness ==
    /\ pc = "done"
    /\ \E i, j \in 1..Len(tasks) :
          /\ Oversize(tasks[i]) /\ ~Assigned(tasks[i])
          /\ Assigned(tasks[j])

Expired(t) == t.start_time = None /\ current_time > t.deadline

\* C10, state part: once the pending list of a step is built, it holds no
\* unassigned task whose deadline is before current_time.
C10_ExpiredNotPending ==
    pc \in {"loop", "adapt"} =>
        \A i \in 1..Len(tasks) :
            Expired(tasks[i]) => tasks[i].task_id \notin Range(pending_tasks)

\* C10, step part: no step changes an expired task, and no step builds a
\* pending list that holds it.
C10_ExpiredStep ==
    \A i \in 1..Len(tasks) :
        Expired(tasks[i]) =>
            /\ tasks'[i] = tasks[i]
            /\ pending_tasks' # pending_tasks =>
                  tasks[i].task_id \notin Range(pending_tasks')

\* C10: a task unassigned when current_time > deadline is in no pending list
\* from then on and stays unassigned to the end of the run.
C10_ExpiryPermanent == [] C10_ExpiredNotPending /\ [][C10_ExpiredStep]_vars

\* C10 witness: the step after its deadline, a task is still unassigned and
\* was left out of the pending list while the run goes on.
C10_Witness ==
    /\ pc = "adapt"
    /\ current_time < simulation_time - 1
    /\ \E i \in 1..Len(tasks) :
          /\ tasks[i].start_time = None
          /\ current_time = tasks[i].deadline + 1
          /\ tasks[i].task_id \notin Range(pending_tasks)

\* C11, state part: once the pending list of a step is built, every task
\* still unassigned whose deadline is not before current_time is in it and in
\* the sorted list the scheduler goes through, so a task skipped at an
\* earlier step is offered again at every step up to its deadline.
C11_OfferedAgain ==
    pc \in {"loop", "adapt"} =>
        \A i \in 1..Len(tasks) :
            (tasks[i].start_time = None /\ tasks[i].deadline >= current_time) =>
                /\ tasks[i].task_id \in Range(pending_tasks)
                /\ tasks[i].task_id \in Range(tasks_sorted)

\* C11, step part: an iteration on a task no node has room for changes no
\* task and no node.
C11_SkipUntouched ==
    (InLoop /\ ~Fits(nodes, TaskOf(tasks, AtTask).required)) =>
        /\ tasks' = tasks
        /\ nodes' = nodes
        /\ TaskOf(tasks', AtTask).start_time = None

\* C11: a skipped task stays unassigned and untouched and is retried at every
\* later step of the run while deadline >= current_time.
C11_RetriedUntilDeadline == [] C11_OfferedAgain /\ [][C11_SkipUntouched]_vars

\* C11 witness: at a step after the first, the scheduler is offered a task
\* again and no node has room for it.
C11_Witness ==
    /\ InLoop
    /\ current_time > 0
    /\ ~Fits(nodes, TaskOf(tasks, AtTask).required)

\* the nodes of the example: loads 10, 20, 30
ExampleNodes ==
    [i \in 1..3 |-> [Node(i - 1, 50) EXCEPT !.current_load = 10 * i]]

\* C12, state part: alpha is 1; before the first policy update beta is 1/2;
\* after the update of a step beta is 1/2 + (1/10) * (mean load / 50) for the
\* loads that step's scheduling left; loads 10, 20, 30 give 54/100.
C12_BetaValue ==
    /\ RatEq(meta_params.alpha, Rat(1, 1))
    /\ current_time = 0 => RatEq(meta_params.beta, Rat(1, 2))
    /\ (pc \in {"while", "done"} /\ current_time > 0) =>
          meta_params.beta.num * (500 * Len(nodes))
              = (250 * Len(nodes)
                 + SumSeq([i \in 1..Len(nodes) |-> nodes[i].current_load]))
                * meta_params.beta.den
    /\ RatEq(NewBeta(ExampleNodes), Rat(54, 100))

\* C12, step part: only the policy update at the end of a step changes
\* meta_params, so the scheduler of step t reads the value set at the end of
\* step t - 1.
C12_BetaStep == pc # "adapt" => meta_params' = meta_params

\* C12: the policy update rule and when its value is used.
C12_PolicyAdaptation == [] C12_BetaValue /\ [][C12_BetaStep]_vars

\* C12 witness: a step with two nodes of different loads has ended and beta
\* has left 1/2.
C12_Witness ==
    /\ pc = "while" /\ current_time > 0
    /\ Len(nodes) = 2
    /\ nodes[1].current_load # nodes[2].current_load
    /\ ~RatEq(meta_params.beta, Rat(1, 2))

\* C13 as stated: for every simulation_time >= 0 the run goes through the
\* steps 0 .. simulation_time - 1 and, once it has stopped, stands in the
\* terminal state current_time = simulation_time.
C13_Original ==
    /\ pc # "error" => current_time \in 0..simulation_time
    /\ pc \in {"done", "error"} => (pc = "done" /\ current_time = simulation_time)

\* the positions of the assignment events of task tid in the output
AssignedEvents(tid) ==
    {k \in 1..Len(stdout) : stdout[k].kind = "assigned" /\ stdout[k].task_id = tid}
\* the step an event was printed in: the policy updates printed before it
StepOfEvent(k) ==
    Cardinality({j \in 1..(k - 1) : stdout[j].kind = "params"})
\* assigned by the schedule_tasks call that is still running
BeingScheduled(t) == pc = "loop" /\ t.start_time = current_time

\* C14: a task assigned by a call that has returned has exactly one
\* assignment event, printed in the step equal to its start_time and showing
\* its fields; any other task has none; every event names a task.
C14_ReportedOnce ==
    /\ \A i \in 1..Len(tasks) :
          LET t == tasks[i]
              ev == AssignedEvents(t.task_id)
          IN  IF Assigned(t) /\ ~BeingScheduled(t)
              THEN /\ Cardinality(ev) = 1
                   /\ \A k \in ev :
                         /\ StepOfEvent(k) = t.start_time
                         /\ stdout[k].assigned_node = t.assigned_node
                         /\ stdout[k].start_time = t.start_time
                         /\ stdout[k].end_time = t.end_time
                         /\ stdout[k].deadline = t.deadline
              ELSE ev = {}
    /\ \A k \in 1..Len(stdout) :
          stdout[k].kind = "assigned" => stdout[k].task_id \in TaskIds

\* C14 witness: the run has ended with two tasks reported in different steps
\* and a third task never assigned and never reported.
C14_Witness ==
    /\ pc = "done"
    /\ \E i, j, k \in 1..Len(tasks) :
          /\ Assigned(tasks[i]) /\ Assigned(tasks[j])
          /\ tasks[i].start_time < tasks[j].start_time
          /\ ~Assigned(tasks[k])
          /\ AssignedEvents(tasks[k].task_id) = {}
          /\ AssignedEvents(tasks[i].task_id) # {}

\* the final per-node events: the last Len(nodes) events of the output
FinalEvent(i) == stdout[Len(stdout) - Len(nodes) + i]

\* C15: at termination every assigned task with end_time > simulation_time
\* is still in the schedule of its node, every node's load is the sum of
\* required over its schedule, and the final report shows for each node that
\* load and that schedule.
C15_RunningAtTermination ==
    pc = "done" =>
        /\ \A i \in 1..Len(tasks) :
              (Assigned(tasks[i]) /\ tasks[i].end_time > simulation_time) =>
                  InSchedule(tasks[i].assigned_node, tasks[i].task_id)
        /\ \A n \in 1..Len(nodes) :
              /\ nodes[n].current_load = SumSeq(RequiredOf(nodes[n].schedule))
              /\ FinalEvent(n).kind = "node"
              /\ FinalEvent(n).node_id = nodes[n].node_id
              /\ FinalEvent(n).schedule = nodes[n].schedule
              /\ FinalEvent(n).current_load = SumSeq(RequiredOf(FinalEvent(n).schedule))

\* C15 witness: the run has ended while a task with end_time >
\* simulation_time holds part of its node.
C15_Witness ==
    /\ pc = "done"
    /\ \E i \in 1..Len(tasks) :
          /\ Assigned(tasks[i])
          /\ tasks[i].end_time > simulation_time
          /\ NodeOf(nodes, tasks[i].assigned_node).current_load >= tasks[i].required

\* the tasks of a schedule that end after time ct, in the order of the schedule
StillRunning(schedule, ct) ==
    Filter(schedule, {tid \in Range(schedule) : TaskOf(tasks, tid).end_time > ct})
\* the tasks of a schedule that have ended by time ct
Ended(schedule, ct) ==
    Filter(schedule, {tid \in Range(schedule) : TaskOf(tasks, tid).end_time <= ct})

\* C16, the release step update_nodes(nodes, t): each schedule keeps exactly
\* its tasks with end_time > t, in order; each load drops by the sum of
\* required of the tasks with end_time <= t; capacities, node ids and every
\* task stay as they are.
C16_ReleaseStep ==
    (pc = "while" /\ pc' = "select") =>
        /\ tasks' = tasks
        /\ Len(nodes') = Len(nodes)
        /\ \A n \in 1..Len(nodes) :
              /\ nodes'[n].schedule = StillRunning(nodes[n].schedule, current_time)
              /\ nodes'[n].current_load =
                    nodes[n].current_load
                    - SumSeq(RequiredOf(Ended(nodes[n].schedule, current_time)))
              /\ nodes'[n].capacity = nodes[n].capacity
              /\ nodes'[n].node_id = nodes[n].node_id

\* C16: what the release step changes and what it leaves alone.
C16_ReleaseExact == [][C16_ReleaseStep]_vars

\* C16 witness: the release step has just taken one task off a node and left
\* another task of the same node in place.
C16_Witness ==
    /\ pc = "select"
    /\ \E i, j \in 1..Len(tasks) :
          /\ Assigned(tasks[i]) /\ Assigned(tasks[j])
          /\ tasks[i].assigned_node = tasks[j].assigned_node
          /\ tasks[i].end_time = current_time
          /\ ~InSchedule(tasks[i].assigned_node, tasks[i].task_id)
          /\ InSchedule(tasks[j].assigned_node, tasks[j].task_id)

\* position of task tid in the list s
PositionIn(s, tid) == CHOOSE k \in 1..Len(s) : s[k] = tid

\* C17, order part: while schedule_tasks runs, tasks_sorted holds the tasks
\* of pending_tasks, each once, in ascending deadline order, tasks of equal
\* deadline in the order of pending_tasks, which is the order of the ledger.
C17_SortedStable ==
    pc = "loop" =>
        /\ Len(tasks_sorted) = Len(pending_tasks)
        /\ Range(tasks_sorted) = Range(pending_tasks)
        /\ \A i, j \in 1..Len(pending_tasks) : i < j => pending_tasks[i] < pending_tasks[j]
        /\ \A i, j \in 1..Len(tasks_sorted) :
              i < j =>
                  LET a == TaskOf(tasks, tasks_sorted[i])
                      b == TaskOf(tasks, tasks_sorted[j])
                  IN  /\ a.deadline <= b.deadline
                      /\ a.deadline = b.deadline =>
                            PositionIn(pending_tasks, a.task_id)
                                < PositionIn(pending_tasks, b.task_id)

\* C17 as stated: at the entry of a schedule_tasks call, for pending tasks A
\* and B of equal deadline, A before B in the ledger, each fitting the
\* capacity at the entry alone and not both, the call assigns A and not B.
C17_Original ==
    (pc = "loop" /\ loop_i = 1) =>
        \A a, b \in Range(pending_tasks) :
            (/\ TaskOf(tasks, a).deadline = TaskOf(tasks, b).deadline
             /\ a < b
             /\ OnlyOneFits(nodes, TaskOf(tasks, a).required, TaskOf(tasks, b).required))
            => /\ Assigned(TaskOf(CallResult.tasks, a))
               /\ ~Assigned(TaskOf(CallResult.tasks, b))

\* C17, amended: the order part, and when the for loop reaches A, for a
\* pending task B of equal deadline that follows A in the ledger, if each
\* fits the capacity left at that moment alone and not both, the call
\* assigns A and does not assign B.
C17_TiesInLedgerOrder ==
    /\ C17_SortedStable
    /\ InLoop =>
        \A b \in Range(pending_tasks) :
            (/\ TaskOf(tasks, AtTask).deadline = TaskOf(tasks, b).deadline
             /\ AtTask < b
             /\ OnlyOneFits(nodes, TaskOf(tasks, AtTask).required,
                            TaskOf(tasks, b).required))
            => /\ Assigned(TaskOf(CallResult.tasks, AtTask))
               /\ ~Assigned(TaskOf(CallResult.tasks, b))
               /\ ~Assigned(TaskOf(tasks, b))

\* C17 witness: the loop stands at A, a task B of the same deadline follows
\* it in the ledger, each fits alone and the two do not fit together.
C17_Witness ==
    /\ InLoop
    /\ \E b \in Range(pending_tasks) :
          /\ TaskOf(tasks, AtTask).deadline = TaskOf(tasks, b).deadline
          /\ AtTask < b
          /\ OnlyOneFits(nodes, TaskOf(tasks, AtTask).required,
                         TaskOf(tasks, b).required)

\* what the tasks assigned to node nid that end after time ct require together
HeldAfter(nid, ct) ==
    SumSeq([i \in 1..Len(tasks) |->
                IF tasks[i].assigned_node = nid /\ tasks[i].end_time > ct
                THEN tasks[i].required ELSE 0])

\* C18: from the release of step t to the end of step t no schedule holds a
\* task with end_time <= t, and the room the scheduler of step t finds on a
\* node is its capacity less what the tasks ending after t require: what a
\* task with end_time = t held is free for the tasks scheduled at step t.
C18_ReleaseBeforeScheduling ==
    pc \in {"select", "loop", "adapt"} =>
        \A n \in 1..Len(nodes) :
            /\ \A k \in 1..Len(nodes[n].schedule) :
                  TaskOf(tasks, nodes[n].schedule[k]).end_time > current_time
            /\ available_capacity(nodes[n])
                  = nodes[n].capacity - HeldAfter(nodes[n].node_id, current_time)

\* C18 witness: a task has started on a node at the step at which another
\* task of that node ended, and the node could not have held both.
C18_Witness ==
    /\ pc = "loop"
    /\ \E i, j \in 1..Len(tasks) :
          /\ Assigned(tasks[i]) /\ Assigned(tasks[j])
          /\ tasks[i].assigned_node = tasks[j].assigned_node
          /\ tasks[i].end_time = current_time
          /\ tasks[j].start_time = current_time
          /\ tasks[i].required + tasks[j].required
                > NodeOf(nodes, tasks[i].assigned_node).capacity

\* C19: when a schedule_tasks call has returned, no node has room for any
\* task that was passed to it and is still unassigned; so at the end of a
\* step no node has room for any unassigned task whose deadline has not
\* passed.
C19_NoRoomForSkipped ==
    ((pc = "loop" /\ loop_i > Len(tasks_sorted)) \/ pc = "adapt") =>
        /\ \A tid \in Range(pending_tasks) :
              ~Assigned(TaskOf(tasks, tid)) =>
                  \A n \in 1..Len(nodes) :
                      TaskOf(tasks, tid).required > available_capacity(nodes[n])
        /\ \A i \in 1..Len(tasks) :
              (tasks[i].start_time = None /\ tasks[i].deadline >= current_time) =>
                  ~Fits(nodes, tasks[i].required)

\* C19 witness: a call has returned leaving a task unassigned while a node
\* has room left, less than the task requires.
C19_Witness ==
    /\ pc = "adapt"
    /\ \E tid \in Range(pending_tasks), n \in 1..Len(nodes) :
          /\ ~Assigned(TaskOf(tasks, tid))
          /\ available_capacity(nodes[n]) > 0
          /\ available_capacity(nodes[n]) < TaskOf(tasks, tid).required

\* the node capacities of the run, and the largest
CapacitiesInUse == {nodes[i].capacity : i \in 1..Len(nodes)}
MaxCapacity == CHOOSE c \in CapacitiesInUse : \A d \in CapacitiesInUse : d <= c
\* 1/2 + (1/10) * (c / 50)
BetaBound(c) ==
    RatAdd(Rat(1, 2), RatMul(Rat(1, 10), RatDiv(Rat(c, 1), Rat(50, 1))))
\* the score of a node of capacity c under load l
ScoreAt(c, l) == Score([capacity |-> c, current_load |-> l], meta_params)

\* C20: 1/2 <= beta <= 1/2 + (1/10) * (C / 50) for the largest capacity C;
\* with capacities within 50..100, beta <= 7/10; alpha + beta > 0, and for a
\* node of fixed capacity a higher load gives a strictly lower score (the
\* score is linear in the load, so its slope is settled by comparing the
\* empty node with the node holding one task).
C20_BetaBounded ==
    /\ RatLeq(Rat(1, 2), meta_params.beta)
    /\ RatLeq(meta_params.beta, BetaBound(MaxCapacity))
    /\ CapacitiesInUse \subseteq 50..100 => RatLeq(meta_params.beta, Rat(7, 10))
    /\ RatLess(Rat(0, 1), RatAdd(meta_params.alpha, meta_params.beta))
    /\ \A c \in CapacitiesInUse, r \in Requireds :
          RatLess(ScoreAt(c, r), ScoreAt(c, 0))

\* C20 witness: every node was full at the end of a step and beta stands at
\* its upper bound, above 1/2.
C20_Witness ==
    /\ pc = "while" /\ current_time > 0
    /\ \A i \in 1..Len(nodes) : nodes[i].current_load = nodes[i].capacity
    /\ RatEq(meta_params.beta, BetaBound(MaxCapacity))

====
